---- MODULE Spec2Model ----
(***************************************************************************)
(* Jeevrakshak: nearest-hospital routing and the doctor-request queue.     *)
(* Model of src/jeevrakshak-backend/server.js (dispatch, directory, queue) *)
(* and of the staff resolution workflow of src/Jeevrakshak/hospital.js.    *)
(*                                                                         *)
(* Numbers.  JavaScript numbers are IEEE doubles; here they are fixed      *)
(* point with FScale units per 1, every operation rounded to nearest, as   *)
(* the double operations are.  Coordinates are in units of 1/DegUnit       *)
(* degree.  NaN and Infinity are integers no computation produces; every   *)
(* comparison with NaN is false (NumLess).                                 *)
(***************************************************************************)
EXTENDS Integers, Sequences, FiniteSets, TLC

NaN == -999999999
Infinity == 2147483647

FScale == 10000
DegUnit == 10000
PiFixed == 31416
EarthRadiusKm == 6371

Abs(x) == IF x < 0 THEN -x ELSE x

\* a / b rounded to the nearest integer (b > 0), the rounding of a double operation
RoundDiv(a, b) == IF a >= 0 THEN (2 * a + b) \div (2 * b) ELSE -((2 * (-a) + b) \div (2 * b))

FMul(a, b) == RoundDiv(a * b, FScale)

RECURSIVE SqrtSearch(_, _, _)
SqrtSearch(n, lo, hi) ==
    IF lo >= hi THEN lo
    ELSE LET mid == (lo + hi + 1) \div 2
         IN IF mid * mid <= n THEN SqrtSearch(n, mid, hi) ELSE SqrtSearch(n, lo, mid - 1)

\* Math.sqrt on a fixed-point value in [0, 2]; NaN for a negative argument
FSqrt(v) ==
    IF v = NaN \/ v < 0 THEN NaN
    ELSE LET n == v * FScale
             r == SqrtSearch(n, 0, 2 * FScale)
         IN IF n - r * r > r THEN r + 1 ELSE r

\* sine and cosine of an angle in [0, pi/2], by their power series
SinQ(x) ==
    LET x2 == FMul(x, x)
        t4 == FScale - RoundDiv(x2, 72)
        t3 == FScale - FMul(RoundDiv(x2, 42), t4)
        t2 == FScale - FMul(RoundDiv(x2, 20), t3)
        t1 == FScale - FMul(RoundDiv(x2, 6), t2)
    IN FMul(x, t1)

CosQ(x) ==
    LET x2 == FMul(x, x)
        t5 == FScale - RoundDiv(x2, 90)
        t4 == FScale - FMul(RoundDiv(x2, 56), t5)
        t3 == FScale - FMul(RoundDiv(x2, 30), t4)
        t2 == FScale - FMul(RoundDiv(x2, 12), t3)
    IN FScale - FMul(RoundDiv(x2, 2), t2)

\* Math.sin, Math.cos for |x| <= 2 pi
MathSin(x) ==
    LET ax == Abs(x)
        s  == IF ax > PiFixed THEN -1 ELSE 1
        y  == IF ax > PiFixed THEN ax - PiFixed ELSE ax
        v  == IF 2 * y > PiFixed THEN SinQ(PiFixed - y) ELSE SinQ(y)
    IN IF x < 0 THEN -(s * v) ELSE s * v

MathCos(x) ==
    LET ax == Abs(x)
        s  == IF ax > PiFixed THEN -1 ELSE 1
        y  == IF ax > PiFixed THEN ax - PiFixed ELSE ax
    IN IF 2 * y > PiFixed THEN -(s * CosQ(PiFixed - y)) ELSE s * CosQ(y)

\* arctangent of t in [0, 1]: one argument halving, then the power series
AtanUnit(t) ==
    LET h  == RoundDiv(t * FScale, FScale + FSqrt(FScale + FMul(t, t)))
        h2 == FMul(h, h)
        u4 == RoundDiv(FScale, 7) - FMul(h2, RoundDiv(FScale, 9))
        u3 == RoundDiv(FScale, 5) - FMul(h2, u4)
        u2 == RoundDiv(FScale, 3) - FMul(h2, u3)
        u1 == FScale - FMul(h2, u2)
    IN 2 * FMul(h, u1)

\* Math.atan2(y, x) for y, x >= 0 not both 0; NaN when an argument is NaN
MathAtan2(y, x) ==
    IF y = NaN \/ x = NaN THEN NaN
    ELSE IF y <= x THEN AtanUnit(RoundDiv(y * FScale, x))
    ELSE RoundDiv(PiFixed, 2) - AtanUnit(RoundDiv(x * FScale, y))

\* toRad = deg * (Math.PI / 180); deg in units of 1/DegUnit degree
toRad(deg) ==
    LET d == Abs(deg)
        r == RoundDiv((d \div DegUnit) * 1745329 + RoundDiv((d % DegUnit) * 1745, 10), 10000)
    IN IF deg < 0 THEN -r ELSE r

\* the haversine term a of getDistance
HaversineA(lat1, lon1, lat2, lon2) ==
    LET dLat == toRad(lat2 - lat1)
        dLon == toRad(lon2 - lon1)
        sLat == MathSin(RoundDiv(dLat, 2))
        sLon == MathSin(RoundDiv(dLon, 2))
    IN FMul(sLat, sLat)
         + FMul(FMul(FMul(MathCos(toRad(lat1)), MathCos(toRad(lat2))), sLon), sLon)

\* getDistance(lat1, lon1, lat2, lon2): kilometres times FScale, or NaN
getDistance(lat1, lon1, lat2, lon2) ==
    IF lat1 = NaN \/ lon1 = NaN \/ lat2 = NaN \/ lon2 = NaN THEN NaN
    ELSE LET a == HaversineA(lat1, lon1, lat2, lon2)
             c == MathAtan2(FSqrt(a), FSqrt(FScale - a))
         IN IF c = NaN THEN NaN ELSE EarthRadiusKm * (2 * c)

\* a === b on Numbers as JavaScript evaluates it: false when either side is NaN
NumEq(a, b) == a # NaN /\ b # NaN /\ a = b

\* variant: the comparison written !(a >= b), true when either side is NaN
NumLess_NotGreaterEqual(a, b) == IF a = NaN \/ b = NaN THEN TRUE ELSE a < b

\* variant: the comparison written <=
NumLess_OrEqual(a, b) == a # NaN /\ b # NaN /\ a <= b

\* a < b as JavaScript evaluates it: false when either side is NaN
NumLess(a, b) == a # NaN /\ b # NaN /\ a < b

(***************************************************************************)
(* Values.  A field that is absent (JavaScript undefined) is Undefined for *)
(* a number and "" for a string; both are falsy, as in the source.         *)
(***************************************************************************)
Undefined == -999999998

\* ToNumber / parseFloat of a stored coordinate field: an absent field is NaN
parseFloat(v) == IF v = Undefined THEN NaN ELSE v

\* a location object {lat, lng}; present = FALSE is null / undefined
Loc(lat, lng) == [present |-> TRUE, lat |-> lat, lng |-> lng]
NoLocation == [present |-> FALSE, lat |-> Undefined, lng |-> Undefined]

\* ensureAdminHospitalUser: the default location of HospitalAdmin
AdminLat == 129716
AdminLng == 775946
AdminLocation == Loc(AdminLat, AdminLng)

\* the coordinates the clients send
PointA == Loc(80000, 0)
PointB == Loc(-80000, 1800000)
PointC == Loc(0, 0)
NoLatLocation == Loc(Undefined, 775946)

\* location fields of the bodies of register/hospital, login, and the dispatch routes
RegisterLocations == {NoLocation, PointC}
LoginLocations == {NoLocation, NoLatLocation, PointB, PointC}
PatientLocations == {NoLocation, PointA}

\* bounds of the model
MaxRequests == 2
MaxClock == 1
MaxPrescriptions == 2

\* the invocations of the dispatch routes that can be in flight together
Handlers == {"h1", "h2"}

HospitalForms == {[name |-> "CityCare", email |-> "citycare@h.org"]}
PatientNames == {"asha"}
Reasons == {"chest pain"}
\* criticality as the caller sends it; "" is an absent field
CallerCriticalities == {"", "low", "MEDIUM"}
\* a criticality that is not a string: the Number 5, truthy and without toUpperCase
NumberCriticality == "5 (Number)"
Kinds == {"SOS", "DOCTOR_CONNECT"}

\* String.prototype.toUpperCase on the strings that occur
toUpperCase(s) ==
    CASE s = "low" -> "LOW"
      [] s = "medium" -> "MEDIUM"
      [] s = "high" -> "HIGH"
      [] OTHER -> s

\* the UTF-16 code units of a criticality string, which the store's sort compares
CodeUnits(s) ==
    CASE s = "HIGH" -> <<72, 73, 71, 72>>
      [] s = "LOW" -> <<76, 79, 87>>
      [] s = "MEDIUM" -> <<77, 69, 68, 73, 85, 77>>
      [] s = "URGENT" -> <<85, 82, 71, 69, 78, 84>>
      [] s = "low" -> <<108, 111, 119>>
      [] s = "medium" -> <<109, 101, 100, 105, 117, 109>>
      [] OTHER -> <<>>

RECURSIVE SeqLess(_, _)
\* lexicographic order of two code-unit sequences (the store's string comparison)
SeqLess(a, b) ==
    IF b = <<>> THEN FALSE
    ELSE IF a = <<>> THEN TRUE
    ELSE IF Head(a) # Head(b) THEN Head(a) < Head(b)
    ELSE SeqLess(Tail(a), Tail(b))

StringLess(s, t) == SeqLess(CodeUnits(s), CodeUnits(t))

VARIABLES
    users,          \* collection 'users', in insertion order; _id is the index
    doctorRequests, \* collection 'doctorRequests', in insertion order; _id is the index
    prescriptions,  \* collection 'prescriptions'
    clock,          \* new Date()
    pc,             \* per dispatch handler: where it is suspended
    body,           \* per dispatch handler: req.body and the route
    nearest,        \* per dispatch handler: the result of findNearestHospital
    newRequest,     \* per dispatch handler: the document being inserted
    staff,          \* the staff client inside givePrescriptionAndResolve
    resp,           \* the last response of a dispatch, queue or resolution route
    calc,           \* the last call of a routing function on its own: arguments, result
    patientView,    \* the patient client: sendRequest in flight, and what it shows
    toast,          \* the staff client: the type of the last showCustomAlert
    dialog,         \* the staff client: the last answers to confirm and prompt
    loads,          \* the staff client: the runs of loadAndRenderRequests, in start order
    screen          \* the staff client: what the dashboard shows

vars == <<users, doctorRequests, prescriptions, clock, pc, body, nearest, newRequest,
          staff, resp, calc, patientView, toast, dialog, loads, screen>>

\* the document ensureAdminHospitalUser inserts (fields routing never reads are left out)
HospitalAdmin ==
    [id |-> 1, username |-> "HospitalAdmin", name |-> "", email |-> "", role |-> "hospital",
     location |-> AdminLocation, status |-> "APPROVED"]

NoUser ==
    [id |-> 0, username |-> "", name |-> "", email |-> "", role |-> "",
     location |-> NoLocation, status |-> ""]

NoBody == [kind |-> "", patientName |-> "", reason |-> "", criticality |-> "",
           location |-> NoLocation]
\* findNearestHospital's null
NoNearest == [found |-> FALSE, hospital |-> NoUser, distance |-> Infinity]
NoRequest == [made |-> FALSE, doc |-> <<>>]
NoResponse == [op |-> "none", status |-> 0]
StaffIdle == [at |-> "idle", requestId |-> 0]
NoCalc == [fn |-> "none"]
\* a distance as the patient client prints it: value / 100 km with digits decimals
NoText == [value |-> 0, digits |-> 0]
\* sendRequest has not been called: nothing is in flight, no outcome is shown
PatientIdle ==
    [at |-> "idle", type |-> "", body |-> NoBody, result |-> NoResponse,
     title |-> "", hospitalName |-> "", distance |-> NoText, advice |-> FALSE]
\* resolveRequestStart has not been called
NoDialog == [requestId |-> 0, confirmed |-> FALSE, text |-> ""]
\* the dashboard before the first rendering; run is the run of
\* loadAndRenderRequests that rendered last
NoScreen == [run |-> 0, alerts |-> <<>>, queue |-> <<>>]

Init ==
    /\ users = <<HospitalAdmin>>
    /\ doctorRequests = <<>>
    /\ prescriptions = <<>>
    /\ clock = 0
    /\ pc = [p \in Handlers |-> "idle"]
    /\ body = [p \in Handlers |-> NoBody]
    /\ nearest = [p \in Handlers |-> NoNearest]
    /\ newRequest = [p \in Handlers |-> NoRequest]
    /\ staff = StaffIdle
    /\ resp = NoResponse
    /\ calc = NoCalc
    /\ patientView = PatientIdle
    /\ toast = "none"
    /\ dialog = NoDialog
    /\ loads = <<>>
    /\ screen = NoScreen

Last(q) == q[Len(q)]

(***************************************************************************)
(* The account routes of server.js, as far as they write what routing      *)
(* reads: role, status and location of the documents of 'users'.           *)
(***************************************************************************)
HandlersUnchanged == UNCHANGED <<pc, body, nearest, newRequest>>
\* the routes of server.js leave the clients as they are
ClientUnchanged == UNCHANGED <<patientView, toast, dialog, loads, screen>>

\* POST /api/register/patient
RegisterPatient(username, location) ==
    /\ IF \E i \in 1..Len(users) : users[i].username = username
       THEN UNCHANGED users
       ELSE /\ users' = Append(users,
                  [id |-> Len(users) + 1, username |-> username, name |-> "", email |-> "",
                   role |-> "patient", location |-> location, status |-> ""])
    /\ UNCHANGED <<doctorRequests, prescriptions, clock, staff, resp, calc>>
    /\ ClientUnchanged
    /\ HandlersUnchanged

\* POST /api/register/hospital
RegisterHospital(form, location) ==
    /\ IF \E i \in 1..Len(users) : users[i].email = form.email
       THEN UNCHANGED users
       ELSE /\ users' = Append(users,
                  [id |-> Len(users) + 1, username |-> "", name |-> form.name,
                   email |-> form.email, role |-> "hospital", location |-> location,
                   status |-> "PENDING"])
    /\ UNCHANGED <<doctorRequests, prescriptions, clock, staff, resp, calc>>
    /\ ClientUnchanged
    /\ HandlersUnchanged

\* POST /api/login by the user document i, with the role the caller claims
Login(i, role, passwordOk, location) ==
    /\ i \in 1..Len(users)
    /\ IF users[i].role # role \/ ~passwordOk
       THEN UNCHANGED users
       ELSE IF role = "hospital" /\ users[i].status # "APPROVED"
       THEN UNCHANGED users
       ELSE /\ users' = IF location.present
                        THEN [users EXCEPT ![i].location = location]
                        ELSE users
    /\ UNCHANGED <<doctorRequests, prescriptions, clock, staff, resp, calc>>
    /\ ClientUnchanged
    /\ HandlersUnchanged

\* PUT /api/hospital/approve/:id
ApproveHospital(callerRole, id) ==
    /\ IF callerRole # "admin"
       THEN UNCHANGED users
       ELSE IF id \notin 1..Len(users)
       THEN UNCHANGED users
       ELSE /\ users' = [users EXCEPT ![id].status = "APPROVED"]
    /\ UNCHANGED <<doctorRequests, prescriptions, clock, staff, resp, calc>>
    /\ ClientUnchanged
    /\ HandlersUnchanged

\* time passes
Tick ==
    /\ clock < MaxClock
    /\ clock' = clock + 1
    /\ UNCHANGED <<users, doctorRequests, prescriptions, staff, resp, calc>>
    /\ ClientUnchanged
    /\ HandlersUnchanged

(***************************************************************************)
(* Routing: findNearestHospital and the two dispatch routes.               *)
(***************************************************************************)
\* variant: the query without the status filter
FindApprovedHospitals_AnyStatus(us) == SelectSeq(us, LAMBDA u : u.role = "hospital")

\* usersCollection.find({ role: 'hospital', status: 'APPROVED' }), in insertion order
FindApprovedHospitals(us) ==
    SelectSeq(us, LAMBDA u : u.role = "hospital" /\ u.status = "APPROVED")

\* the orders in which a cursor without a sort may return n documents
Orders(n) == {f \in [1..n -> 1..n] : \A i, j \in 1..n : i # j => f[i] # f[j]}

\* hLat !== null && hLng !== null: parseFloat never yields null, so this is
\* the truthiness of hospital.location
HasCoordinates(hospital) == hospital.location.present

\* one iteration of the scan loop: best is {nearestHospital, minDistance}
ScanStep(best, hospital, patientLat, patientLng) ==
    IF HasCoordinates(hospital)
    THEN LET distance == getDistance(patientLat, patientLng,
                                     parseFloat(hospital.location.lat),
                                     parseFloat(hospital.location.lng))
         IN IF NumLess(distance, best.distance)
            THEN [found |-> TRUE, hospital |-> hospital, distance |-> distance]
            ELSE best
    ELSE best

RECURSIVE ScanHospitals(_, _, _, _, _)
ScanHospitals(all, i, best, patientLat, patientLng) ==
    IF i > Len(all) THEN best
    ELSE ScanHospitals(all, i + 1, ScanStep(best, all[i], patientLat, patientLng),
                       patientLat, patientLng)

\* findNearestHospital on the array all the store returned
findNearestHospital(patientLat, patientLng, all) ==
    ScanHospitals(all, 1, NoNearest, patientLat, patientLng)

\* nearest.hospital.username || nearest.hospital.name
HospitalDisplayName(hospital) ==
    IF hospital.username # "" THEN hospital.username ELSE hospital.name

SosMarker == "SOS Alert: "

\* variant: the SOS route takes the criticality as the doctor route does
SosCriticality_FromCaller(b) == IF b.criticality # "" THEN toUpperCase(b.criticality) ELSE "HIGH"

\* criticality of the stored document
SosCriticality(b) == "HIGH"

\* variant: the criticality is stored as the caller sent it
DoctorCriticality_AsSent(b) == IF b.criticality # "" THEN b.criticality ELSE "LOW"

\* criticality.toUpperCase() is a TypeError when criticality is not a string
BuildThrows(b) == b.kind = "DOCTOR_CONNECT" /\ b.criticality = NumberCriticality

DoctorCriticality(b) == IF b.criticality # "" THEN toUpperCase(b.criticality) ELSE "LOW"

\* variant: the status literal in another case
RequestStatus_LowerCase == "pending"

\* status of the newRequest literal
RequestStatus == "PENDING"

\* the newRequest literal of the two routes
BuildRequest(b, n, now) ==
    [patientName |-> b.patientName,
     reason |-> IF b.kind = "SOS" THEN SosMarker \o b.reason ELSE b.reason,
     criticality |-> IF b.kind = "SOS" THEN SosCriticality(b) ELSE DoctorCriticality(b),
     location |-> b.location,
     hospitalId |-> n.hospital.id,
     hospitalName |-> HospitalDisplayName(n.hospital),
     timestamp |-> now,
     type |-> b.kind,
     status |-> RequestStatus]

\* variant: the response is built from the directory as it is when the response is sent
DispatchedResponse_Reread(p, b, n) ==
    LET current == users[n.hospital.id]
    IN [op |-> b.kind, status |-> 201,
        hospitalName |-> HospitalDisplayName(current),
        distance |-> getDistance(parseFloat(b.location.lat), parseFloat(b.location.lng),
                                 parseFloat(current.location.lat),
                                 parseFloat(current.location.lng))]

\* the 201 body of the two routes
DispatchedResponse(p, b, n) ==
    [op |-> b.kind, status |-> 201,
     hospitalName |-> HospitalDisplayName(n.hospital), distance |-> n.distance]

\* variant: a fault is not caught, and the caller gets no response (status 0)
FailedResponse_Uncaught(p, b, code) ==
    [op |-> b.kind, status |-> IF code = 500 THEN 0 ELSE code]

\* the 503 body, and the 500 body of the catch
FailedResponse(p, b, code) == [op |-> b.kind, status |-> code]

Bodies ==
    [kind : Kinds, patientName : PatientNames, reason : Reasons,
     criticality : CallerCriticalities, location : PatientLocations]

\* the handler has responded: its locals are gone
Finished(p) ==
    /\ pc' = [pc EXCEPT ![p] = "idle"]
    /\ body' = [body EXCEPT ![p] = NoBody]
    /\ nearest' = [nearest EXCEPT ![p] = NoNearest]
    /\ newRequest' = [newRequest EXCEPT ![p] = NoRequest]

\* POST /api/sos-request, POST /api/doctor-request up to the return of
\* findNearestHospital.  location.lat on an absent location throws; a failing
\* find throws; both land in the catch.  order is the order of the cursor.
DispatchFind(p, b, storeOk, order) ==
    /\ pc[p] = "idle"
    /\ IF ~b.location.present \/ ~storeOk
       THEN /\ resp' = FailedResponse(p, b, 500)
            /\ UNCHANGED <<pc, body, nearest, newRequest>>
       ELSE LET stored == FindApprovedHospitals(users)
                allHospitals == [i \in 1..Len(stored) |-> stored[order[i]]]
            IN /\ order \in Orders(Len(stored))
               /\ nearest' = [nearest EXCEPT ![p] =
                      findNearestHospital(parseFloat(b.location.lat),
                                          parseFloat(b.location.lng), allHospitals)]
               /\ pc' = [pc EXCEPT ![p] = "found"]
               /\ body' = [body EXCEPT ![p] = b]
               /\ UNCHANGED <<resp, newRequest>>
    /\ UNCHANGED <<users, doctorRequests, prescriptions, clock, staff, calc>>
    /\ ClientUnchanged

\* from the return of findNearestHospital to the call of insertOne; a fault
\* in the newRequest literal lands in the catch
DispatchRoute(p) ==
    /\ pc[p] = "found"
    /\ IF ~nearest[p].found
       THEN /\ resp' = FailedResponse(p, body[p], 503)
            /\ Finished(p)
       ELSE IF BuildThrows(body[p])
       THEN /\ resp' = FailedResponse(p, body[p], 500)
            /\ Finished(p)
       ELSE /\ newRequest' = [newRequest EXCEPT ![p] =
                   [made |-> TRUE, doc |-> BuildRequest(body[p], nearest[p], clock)]]
            /\ pc' = [pc EXCEPT ![p] = "inserting"]
            /\ UNCHANGED <<resp, body, nearest>>
    /\ UNCHANGED <<users, doctorRequests, prescriptions, clock, staff, calc>>
    /\ ClientUnchanged

\* variant: the document replaces the stored one of the same patient
InsertOne_ReplaceByPatient(coll, doc) ==
    IF \E i \in 1..Len(coll) : coll[i].patientName = doc.patientName
    THEN LET i == CHOOSE j \in 1..Len(coll) : coll[j].patientName = doc.patientName
         IN [coll EXCEPT ![i] = [id |-> i] @@ doc]
    ELSE Append(coll, [id |-> Len(coll) + 1] @@ doc)

\* variant: the document replaces a stored one with the same content (an upsert)
InsertOne_Upsert(coll, doc) ==
    IF \E i \in 1..Len(coll) : coll[i] = [id |-> i] @@ doc
    THEN coll
    ELSE Append(coll, [id |-> Len(coll) + 1] @@ doc)

\* collection.insertOne(doc): the store gives the document a new _id
InsertOne(coll, doc) == Append(coll, [id |-> Len(coll) + 1] @@ doc)

\* variant: insertOne is not awaited, so its failure is not seen before the 201
DispatchInsert_NotAwaited(p, storeOk) ==
    /\ pc[p] = "inserting"
    /\ Finished(p)
    /\ doctorRequests' = IF storeOk THEN InsertOne(doctorRequests, newRequest[p].doc)
                         ELSE doctorRequests
    /\ resp' = DispatchedResponse(p, body[p], nearest[p])
    /\ UNCHANGED <<users, prescriptions, clock, staff, calc>>
    /\ ClientUnchanged

\* insertOne and the response
DispatchInsert(p, storeOk) ==
    /\ pc[p] = "inserting"
    /\ Finished(p)
    /\ IF storeOk
       THEN /\ doctorRequests' = InsertOne(doctorRequests, newRequest[p].doc)
            /\ resp' = DispatchedResponse(p, body[p], nearest[p])
       ELSE /\ resp' = FailedResponse(p, body[p], 500)
            /\ UNCHANGED doctorRequests
    /\ UNCHANGED <<users, prescriptions, clock, staff, calc>>
    /\ ClientUnchanged

(***************************************************************************)
(* The queue: GET /api/doctor-requests.                                    *)
(***************************************************************************)
\* variant: the query without the status filter
FindPending_AnyStatus(reqs) == reqs

\* variant: the query with limit(1)
FindPending_FirstPage(reqs) ==
    LET found == SelectSeq(reqs, LAMBDA r : r.status = "PENDING")
    IN IF found = <<>> THEN found ELSE <<Head(found)>>

\* find({ status: 'PENDING' })
FindPending(reqs) == SelectSeq(reqs, LAMBDA r : r.status = "PENDING")

\* sort({ criticality: -1, timestamp: 1 }): a may come before b.  The store
\* compares the criticality strings, code unit by code unit.
StoreSortBefore(a, b) ==
    \/ StringLess(b.criticality, a.criticality)
    \/ a.criticality = b.criticality /\ a.timestamp <= b.timestamp

IsStoreSorted(list) ==
    \A i, j \in 1..Len(list) : i < j => StoreSortBefore(list[i], list[j])

\* the ids in the tokens login has signed for the role 'hospital': login refuses
\* a hospital that is not APPROVED, and an approval is never taken back
HospitalTokens ==
    {i \in 1..Len(users) : users[i].role = "hospital" /\ users[i].status = "APPROVED"}

\* authenticateToken, then the role check: the status they answer, 0 to go on
QueueAccess(callerRole) ==
    IF callerRole = "" THEN 401 ELSE IF callerRole # "hospital" THEN 403 ELSE 0

\* variant: the query with the filter the route's comment considers
GetDoctorRequests_OwnOnly(callerRole, callerId, storeOk, order) ==
    /\ IF QueueAccess(callerRole) # 0
       THEN resp' = [op |-> "queue", status |-> QueueAccess(callerRole)]
       ELSE IF ~storeOk
       THEN resp' = [op |-> "queue", status |-> 500]
       ELSE LET stored == SelectSeq(FindPending(doctorRequests),
                                    LAMBDA r : r.hospitalId = callerId)
                list == [i \in 1..Len(stored) |-> stored[order[i]]]
            IN /\ order \in Orders(Len(stored))
               /\ IsStoreSorted(list)
               /\ resp' = [op |-> "queue", status |-> 200, list |-> list,
                           caller |-> callerId]
    /\ UNCHANGED <<users, doctorRequests, prescriptions, clock, staff, calc>>
    /\ UNCHANGED <<patientView, dialog, screen>>
    /\ HandlersUnchanged

\* callerRole and callerId are role and id of req.user, the payload of the token.
\* What the caller's page does with the answer is written by fetchDoctorRequests.
GetDoctorRequests(callerRole, callerId, storeOk, order) ==
    /\ IF QueueAccess(callerRole) # 0
       THEN resp' = [op |-> "queue", status |-> QueueAccess(callerRole)]
       ELSE IF ~storeOk
       THEN resp' = [op |-> "queue", status |-> 500]
       ELSE LET stored == FindPending(doctorRequests)
                list == [i \in 1..Len(stored) |-> stored[order[i]]]
            IN /\ order \in Orders(Len(stored))
               /\ IsStoreSorted(list)
               /\ resp' = [op |-> "queue", status |-> 200, list |-> list,
                           caller |-> callerId]
    /\ UNCHANGED <<users, doctorRequests, prescriptions, clock, staff, calc>>
    /\ UNCHANGED <<patientView, dialog, screen>>
    /\ HandlersUnchanged

(***************************************************************************)
(* Resolution.  hospital.js calls POST /api/prescriptions and              *)
(* PUT /api/doctor-request/:id/resolve; server.js has neither route, so    *)
(* the two endpoints are written from the specification (4.5, 6).          *)
(***************************************************************************)
PrescriptionTexts == {"rest and fluids"}

\* prescriptionData of givePrescriptionAndResolve
PrescriptionData(requestId, patientName, text) ==
    [requestId |-> requestId, patientName |-> patientName, prescription |-> text,
     doctorName |-> "Queue Resolution Staff"]

\* endpoint: record a prescription
SavePrescription(store, data) == Append(store, data)

\* variant: the endpoint looks the request up by id alone
CanResolve_AnyStatus(reqs, requestId) == requestId \in 1..Len(reqs)

\* endpoint: resolve(requestId) -> OK | FAIL(NOT_FOUND)
CanResolve(reqs, requestId) ==
    requestId \in 1..Len(reqs) /\ reqs[requestId].status = "PENDING"

ResolveStatus == "RESOLVED"

ResolveRequest(reqs, requestId) ==
    IF CanResolve(reqs, requestId)
    THEN [reqs EXCEPT ![requestId].status = ResolveStatus]
    ELSE reqs

\* variant: the failure of the second call is reported like its success
StaffAlert_AlwaysSuccess(status) == "success"

\* the showCustomAlert after a response of the two calls: the warning of
\* redirectToLogin on 401/403, the error of the catch on any other failure
\* (a network error counts as 500), the success alert after the second call
StaffAlert(status) ==
    IF status \in {401, 403} THEN "warning"
    ELSE IF status \in 200..299 THEN "success"
    ELSE "error"

\* variant: the check of saveResponse.ok is missing
StaffSave_IgnoresFailure(requestId, patientName, text, outcome) ==
    /\ staff.at = "idle"
    /\ Len(prescriptions) < MaxPrescriptions
    /\ IF outcome # "denied"
       THEN /\ prescriptions' =
                   IF outcome = "ok"
                   THEN SavePrescription(prescriptions,
                                         PrescriptionData(requestId, patientName, text))
                   ELSE prescriptions
            /\ staff' = [at |-> "saved", requestId |-> requestId]
            /\ resp' = [op |-> "prescription", status |-> IF outcome = "ok" THEN 201 ELSE 500]
            /\ UNCHANGED toast
       ELSE /\ UNCHANGED prescriptions
            /\ staff' = StaffIdle
            /\ resp' = [op |-> "prescription", status |-> 401]
            /\ toast' = StaffAlert(401)
    /\ UNCHANGED <<users, doctorRequests, clock, calc>>
    /\ UNCHANGED <<patientView, loads, screen>>
    /\ HandlersUnchanged

\* givePrescriptionAndResolve, step 1: the prescription write.
\* outcome: "ok", "denied" (401/403, redirect to login) or "error" (not ok / network).
\* The answers that led here are written by resolveRequestStart, not here.
StaffSave(requestId, patientName, text, outcome) ==
    /\ staff.at = "idle"
    /\ Len(prescriptions) < MaxPrescriptions
    /\ IF outcome = "ok"
       THEN /\ prescriptions' =
                   SavePrescription(prescriptions, PrescriptionData(requestId, patientName, text))
            /\ staff' = [at |-> "saved", requestId |-> requestId]
            /\ resp' = [op |-> "prescription", status |-> 201]
            /\ UNCHANGED toast
       ELSE /\ UNCHANGED prescriptions
            /\ staff' = StaffIdle
            /\ resp' = [op |-> "prescription", status |-> IF outcome = "denied" THEN 401 ELSE 500]
            /\ toast' = StaffAlert(resp'.status)
    /\ UNCHANGED <<users, doctorRequests, clock, calc>>
    /\ UNCHANGED <<patientView, loads, screen>>
    /\ HandlersUnchanged

\* givePrescriptionAndResolve, step 2: the resolve call
StaffResolve(outcome) ==
    /\ staff.at = "saved"
    /\ staff' = StaffIdle
    /\ IF outcome = "ok"
       THEN /\ doctorRequests' = ResolveRequest(doctorRequests, staff.requestId)
            /\ resp' = [op |-> "resolve", requestId |-> staff.requestId,
                        status |-> IF CanResolve(doctorRequests, staff.requestId)
                                   THEN 200 ELSE 404]
       ELSE /\ UNCHANGED doctorRequests
            /\ resp' = [op |-> "resolve", requestId |-> staff.requestId,
                        status |-> IF outcome = "denied" THEN 401 ELSE 500]
    /\ toast' = StaffAlert(resp'.status)
    /\ UNCHANGED <<users, prescriptions, clock, calc>>
    /\ UNCHANGED <<patientView, dialog, loads, screen>>
    /\ HandlersUnchanged

(***************************************************************************)
(* The patient client: sendRequest of patient.js, which posts to a         *)
(* dispatch route and shows the outcome.                                   *)
(***************************************************************************)
\* the coordinates localStorage or the geolocation API can give the patient client
PatientClientLocations == {AdminLocation, PointA}
\* the values of the criticality select of the doctor form
SelectCriticalities == {"low", "high"}

\* Number.prototype.toFixed(2), as a count of hundredths
toFixed2(x) == [value |-> RoundDiv(x, FScale \div 100), digits |-> 2]
\* the literal '2.5'
TwoPointFive == [value |-> 250, digits |-> 1]

\* variant: success is true whenever a response has arrived
ResponseOk_AnyResponse(result) == TRUE

\* response.ok
ResponseOk(result) == result.status \in 200..299

\* result.hospitalName || 'Central'
ShownName(result) ==
    IF "hospitalName" \in DOMAIN result /\ result.hospitalName # ""
    THEN result.hospitalName
    ELSE "Central"

\* result.distance ? result.distance.toFixed(2) : '2.5'  (undefined, 0 and NaN are falsy)
ShownDistance(result) ==
    IF "distance" \in DOMAIN result /\ result.distance \notin {0, NaN}
    THEN toFixed2(result.distance)
    ELSE TwoPointFive

\* what executeFetch shows for the response result: the status step of the
\* SOS modal, or the alert of the doctor form
ShowResponse(type, result) ==
    IF type = "SOS"
    THEN IF ResponseOk(result)
         THEN [title |-> "SOS Request Sent!", hospitalName |-> ShownName(result),
               distance |-> ShownDistance(result), advice |-> FALSE]
         ELSE [title |-> "SOS Failed", hospitalName |-> "", distance |-> NoText,
               advice |-> TRUE]
    ELSE [title |-> "Doctor Request Sent!", hospitalName |-> ShownName(result),
          distance |-> ShownDistance(result), advice |-> FALSE]

\* sendRequest up to the fetch of executeFetch: requestData (its type and
\* timestamp are fields the routes do not read) is posted; without a location
\* the geolocation error is shown and nothing is posted
SendRequest(type, reason, criticality, location) ==
    /\ patientView.at = "idle"
    /\ pc["h1"] = "idle"
    /\ IF location.present
       THEN /\ patientView' =
                   [PatientIdle EXCEPT
                       !.at = "sent", !.type = type,
                       !.body = [kind |-> type, patientName |-> "asha", reason |-> reason,
                                 criticality |-> toUpperCase(criticality),
                                 location |-> Loc(parseFloat(location.lat),
                                                  parseFloat(location.lng))]]
            /\ resp' = NoResponse
       ELSE /\ patientView' =
                   [PatientIdle EXCEPT !.type = type, !.title = "Could not fetch location"]
            /\ UNCHANGED resp
    /\ UNCHANGED <<users, doctorRequests, prescriptions, clock, staff, calc>>
    /\ UNCHANGED <<toast, dialog, loads, screen>>
    /\ HandlersUnchanged

\* executeFetch after the await of fetch and of response.json()
ReceiveResponse ==
    /\ patientView.at = "sent"
    /\ pc["h1"] = "idle"
    /\ resp # NoResponse
    /\ patientView' =
          [at |-> "idle", type |-> patientView.type, body |-> NoBody, result |-> resp]
             @@ ShowResponse(patientView.type, resp)
    /\ UNCHANGED <<users, doctorRequests, prescriptions, clock, staff, resp, calc>>
    /\ UNCHANGED <<toast, dialog, loads, screen>>
    /\ HandlersUnchanged

\* the catch of executeFetch: the fetch rejects, whether or not the route has
\* run; the alert is shown and the modal is hidden
NetworkError ==
    /\ patientView.at = "sent"
    /\ patientView' =
          [PatientIdle EXCEPT !.type = patientView.type, !.title = "A network error occurred"]
    /\ UNCHANGED <<users, doctorRequests, prescriptions, clock, staff, resp, calc>>
    /\ UNCHANGED <<toast, dialog, loads, screen>>
    /\ HandlersUnchanged

(***************************************************************************)
(* The staff client: the dashboard of hospital.js.                         *)
(***************************************************************************)
\* the runs of loadAndRenderRequests in a behaviour
MaxLoads == 2
\* the length of the lists renderBookNowQueue is called on alone
MaxShown == 3

\* prompt returns null when the staff press Cancel
PromptCancelled == "null (Cancel)"
PromptAnswers == PrescriptionTexts \cup {"", PromptCancelled}

\* variant: the test is prescriptionText !== null
Proceeds_EmptyAccepted(confirmed, promptText) == confirmed /\ promptText # PromptCancelled

\* resolveRequestStart reaches givePrescriptionAndResolve: confirm returned
\* true and the text of prompt is truthy
Proceeds(confirmed, promptText) == confirmed /\ promptText \notin {PromptCancelled, ""}

\* resolveRequestStart, with the first call of givePrescriptionAndResolve when
\* it is reached.  prompt is not shown after a declined confirm: text is then "".
ResolveRequestStart(requestId, patientName, confirmed, promptText, outcome) ==
    /\ dialog' = [requestId |-> requestId, confirmed |-> confirmed,
                  text |-> IF confirmed THEN promptText ELSE ""]
    /\ IF Proceeds(confirmed, promptText)
       THEN StaffSave(requestId, patientName, promptText, outcome)
       ELSE /\ toast' = IF confirmed /\ promptText = "" THEN "warning" ELSE toast
            /\ UNCHANGED <<users, doctorRequests, prescriptions, clock, staff, resp, calc>>
            /\ UNCHANGED <<patientView, loads, screen>>
            /\ HandlersUnchanged

\* r.type && r.type.toUpperCase() === 'SOS'
IsSos(r) == r.type # "" /\ toUpperCase(r.type) = "SOS"

\* !r.type || r.type.toUpperCase() === 'BOOK_NOW' || ... === 'DOCTOR_CONNECT'
IsBookNow(r) == r.type = "" \/ toUpperCase(r.type) \in {"BOOK_NOW", "DOCTOR_CONNECT"}

\* the table of the comparator; a key that is not in it gives undefined
criticalityOrder(c) ==
    CASE c = "HIGH" -> 3 [] c = "MEDIUM" -> 2 [] c = "LOW" -> 1 [] c = "UNDEFINED" -> 0
      [] OTHER -> Undefined

\* a.criticality ? a.criticality.toUpperCase() : 'LOW'
QueueCriticality(r) == IF r.criticality # "" THEN toUpperCase(r.criticality) ELSE "LOW"

\* the comparator of the sort in renderBookNowQueue: a number minus undefined is NaN
compareRequests(a, b) ==
    LET orderA == criticalityOrder(QueueCriticality(a))
        orderB == criticalityOrder(QueueCriticality(b))
    IN IF orderB # orderA
       THEN IF orderA = Undefined \/ orderB = Undefined THEN NaN ELSE orderB - orderA
       ELSE a.timestamp - b.timestamp

\* Array.prototype.sort reads a comparator result of NaN as +0
SortOrder(v) == IF v = NaN THEN 0 ELSE v

\* Array.prototype.sort may leave input in the order given: every two
\* neighbours of the result are in the order of the comparator, and in the
\* order of the input when it returns 0.  For a consistent comparator this is
\* the stable sort; for one that is not, the order is the engine's choice
\* among these.
MaySort(input, order) ==
    \A k \in 1..(Len(input) - 1) :
        LET c == SortOrder(compareRequests(input[order[k]], input[order[k + 1]]))
        IN c < 0 \/ (c = 0 /\ order[k] < order[k + 1])

\* what renderSOSAlerts and renderBookNowQueue put on the dashboard for
\* requests; an empty sequence is shown as the message of the empty state
Rendered(requests, order, run) ==
    LET queueRequests == SelectSeq(requests, IsBookNow)
    IN [run |-> run,
        alerts |-> SelectSeq(requests, IsSos),
        queue |-> [i \in 1..Len(queueRequests) |-> queueRequests[order[i]]]]

\* a permutation the sort of renderBookNowQueue may apply to requests
MayRender(requests, order) ==
    LET queueRequests == SelectSeq(requests, IsBookNow)
    IN order \in Orders(Len(queueRequests)) /\ MaySort(queueRequests, order)

\* loadAndRenderRequests is called: by showDashboard, by the timer, or after
\* a resolution; its fetch is out
LoadStart ==
    /\ Len(loads) < MaxLoads
    /\ loads' = Append(loads, [at |-> "fetching", status |-> 0, list |-> <<>>])
    /\ UNCHANGED <<users, doctorRequests, prescriptions, clock, staff, resp, calc>>
    /\ UNCHANGED <<patientView, toast, dialog, screen>>
    /\ HandlersUnchanged

\* fetchDoctorRequests of run k returns: the list of a 200, and [] after a
\* 401/403 (with the warning of redirectToLogin), after another failure, and
\* after a fetch that rejects (reached is FALSE).  status is what the fetch
\* met; the function hands on the list alone.
FetchDoctorRequests(k, reached, callerRole, storeOk, order) ==
    /\ k \in 1..Len(loads)
    /\ loads[k].at = "fetching"
    /\ IF reached
       THEN /\ GetDoctorRequests(callerRole, HospitalAdmin.id, storeOk, order)
            /\ loads' = [loads EXCEPT ![k] =
                   [at |-> "fetched", status |-> resp'.status,
                    list |-> IF resp'.status = 200 THEN resp'.list ELSE <<>>]]
            /\ toast' = IF resp'.status \in {401, 403} THEN "warning" ELSE toast
       ELSE /\ loads' = [loads EXCEPT ![k] = [at |-> "fetched", status |-> 0, list |-> <<>>]]
            /\ UNCHANGED <<users, doctorRequests, prescriptions, clock, staff, resp, calc>>
            /\ UNCHANGED <<patientView, toast, dialog, screen>>
            /\ HandlersUnchanged

\* run k of loadAndRenderRequests after its awaits: renderSOSAlerts and
\* renderBookNowQueue on the list its fetch returned
LoadRender(k, order) ==
    /\ k \in 1..Len(loads)
    /\ loads[k].at = "fetched"
    /\ MayRender(loads[k].list, order)
    /\ screen' = Rendered(loads[k].list, order, k)
    /\ loads' = [loads EXCEPT ![k].at = "done"]
    /\ UNCHANGED <<users, doctorRequests, prescriptions, clock, staff, resp, calc>>
    /\ UNCHANGED <<patientView, toast, dialog>>
    /\ HandlersUnchanged

\* the lists renderBookNowQueue is called on alone: documents with and without
\* a criticality, one of them a criticality the table does not have
ShownCriticalities == {"HIGH", "MEDIUM", "LOW", "URGENT", ""}
ShownDocs ==
    [type : {"DOCTOR_CONNECT"}, criticality : ShownCriticalities, timestamp : 0..MaxClock]
        \cup [type : {"SOS"}, criticality : {"HIGH"}, timestamp : 0..MaxClock]
ShownLists ==
    UNION {{[i \in 1..n |-> [id |-> i] @@ f[i]] : f \in [1..n -> ShownDocs]} : n \in 0..MaxShown}

\* renderSOSAlerts and renderBookNowQueue called on requests
CallRender(requests, order) ==
    /\ calc = NoCalc
    /\ MayRender(requests, order)
    /\ calc' = [fn |-> "renderBookNowQueue", requests |-> requests]
    /\ screen' = Rendered(requests, order, 0)
    /\ UNCHANGED <<users, doctorRequests, prescriptions, clock, staff, resp>>
    /\ UNCHANGED <<patientView, toast, dialog, loads>>
    /\ HandlersUnchanged

(***************************************************************************)
(* The routing functions called on their own, on arguments of the caller.  *)
(***************************************************************************)
\* the coordinates getDistance is called on, in units of 1/DegUnit degree
GridPoints ==
    {PointA, PointB, PointC, AdminLocation,
     Loc(0, 10000), Loc(0, -10000), Loc(0, 30000), Loc(80000, 100000),
     Loc(-80000, 0), Loc(-80000, AdminLng), Loc(AdminLat, 0), Loc(80000, AdminLng)}

\* getDistance from a to b, and from b to a.  The functions keep no state, so
\* a behaviour holds one call.
CallGetDistance(a, b) ==
    /\ calc = NoCalc
    /\ calc' = [fn |-> "getDistance", a |-> a, b |-> b,
                ab |-> getDistance(a.lat, a.lng, b.lat, b.lng),
                ba |-> getDistance(b.lat, b.lng, a.lat, a.lng)]
    /\ UNCHANGED <<users, doctorRequests, prescriptions, clock, staff, resp>>
    /\ ClientUnchanged
    /\ HandlersUnchanged

\* bound: the length of the array the store returns to findNearestHospital
MaxCandidates == 3

\* the locations of the hospital documents of that array
CandidateLocations == {NoLocation, Loc(0, 10000), Loc(0, -10000), Loc(0, 30000)}

\* the i-th user document, an APPROVED hospital at location l
Candidate(i, l) == [HospitalAdmin EXCEPT !.id = i, !.location = l]

CandidateArrays ==
    UNION {{[i \in 1..n |-> Candidate(i, ls[i])] : ls \in [1..n -> CandidateLocations]} :
              n \in 0..MaxCandidates}

\* findNearestHospital(patient.lat, patient.lng) when the store returns the array all
CallFindNearest(patient, all) ==
    /\ calc = NoCalc
    /\ calc' = [fn |-> "findNearestHospital", patient |-> patient, all |-> all,
                nearest |-> findNearestHospital(parseFloat(patient.lat),
                                                parseFloat(patient.lng), all)]
    /\ UNCHANGED <<users, doctorRequests, prescriptions, clock, staff, resp>>
    /\ ClientUnchanged
    /\ HandlersUnchanged

Outcomes == {"ok", "denied", "error"}
MaxHospitals == 1 + Cardinality(HospitalForms)
OrderFns == UNION {Orders(n) : n \in 0..MaxHospitals}
QueueOrderFns == UNION {Orders(n) : n \in 0..MaxRequests}

\* the dispatch routes, for the invocations ps and the bodies bs; a new
\* invocation is taken while the store stays within MaxRequests
Dispatch(ps, bs) ==
    \/ \E p \in ps, b \in bs, ok \in BOOLEAN, o \in OrderFns :
          /\ Len(doctorRequests) + Cardinality({q \in Handlers : pc[q] # "idle"}) < MaxRequests
          /\ DispatchFind(p, b, ok, o)
    \/ \E p \in ps : DispatchRoute(p)
    \/ \E p \in ps, ok \in BOOLEAN : DispatchInsert(p, ok)

\* accounts and dispatch: the directory changes under a dispatch
Next ==
    \/ \E u \in PatientNames : RegisterPatient(u, PointC)
    \/ \E f \in HospitalForms, l \in RegisterLocations : RegisterHospital(f, l)
    \/ \E i \in 1..Len(users), ok \in BOOLEAN, l \in LoginLocations :
          Login(i, "hospital", ok, l)
    \/ \E role \in {"admin", "hospital"}, i \in 1..(Len(users) + 1) : ApproveHospital(role, i)
    \/ Dispatch({"h1"}, Bodies)

Spec == Init /\ [][Next]_vars

\* dispatch, queue reads and resolution over the directory of Init
QueueBodies == {b \in Bodies : b.location = PointA /\ b.criticality \in {"", "MEDIUM"}}

NextQueue ==
    \/ Tick
    \/ Dispatch(Handlers, QueueBodies)
    \/ \E role \in {"", "patient", "hospital"}, ok \in BOOLEAN, o \in QueueOrderFns :
          GetDoctorRequests(role, HospitalAdmin.id, ok, o) /\ UNCHANGED <<toast, loads>>
    \/ \E id \in 1..MaxRequests, n \in PatientNames, t \in PrescriptionTexts, oc \in Outcomes :
          StaffSave(id, n, t, oc) /\ UNCHANGED dialog
    \/ \E oc \in Outcomes : StaffResolve(oc)

SpecQueue == Init /\ [][NextQueue]_vars

\* dispatch, queue reads, logins, approvals and resolution together
FrameBodies == {b \in Bodies : b.location = PointA /\ b.criticality = ""}

NextFrame ==
    \/ \E f \in HospitalForms : RegisterHospital(f, PointC)
    \/ \E i \in 1..Len(users), l \in {PointB, PointC} : Login(i, "hospital", TRUE, l)
    \/ \E i \in 1..Len(users) : ApproveHospital("admin", i)
    \/ Dispatch({"h1"}, FrameBodies)
    \/ \E id \in HospitalTokens, o \in QueueOrderFns :
          GetDoctorRequests("hospital", id, TRUE, o) /\ UNCHANGED <<toast, loads>>
    \/ \E id \in 1..MaxRequests, n \in PatientNames, t \in PrescriptionTexts :
          StaffSave(id, n, t, "ok") /\ UNCHANGED dialog
    \/ StaffResolve("ok")

SpecFrame == Init /\ [][NextFrame]_vars

\* the location fields a caller can send: none, one without lat, one whose lng
\* is not numeric (a string that converts to NaN), a coordinate
CallerLocations == {NoLocation, Loc(Undefined, 0), Loc(80000, NaN), PointA}

\* every body a caller can send to the dispatch routes
CallerBodies ==
    [kind : Kinds, patientName : PatientNames, reason : Reasons,
     criticality : CallerCriticalities \cup {NumberCriticality}, location : CallerLocations]

\* the dispatch routes and the queue route under every body and every store
\* failure, over the directory of Init
NextBodies ==
    \/ Tick
    \/ Dispatch({"h1"}, CallerBodies)
    \/ \E role \in {"", "patient", "hospital"}, ok \in BOOLEAN, o \in QueueOrderFns :
          GetDoctorRequests(role, HospitalAdmin.id, ok, o) /\ UNCHANGED <<toast, loads>>

SpecBodies == Init /\ [][NextBodies]_vars

\* the patient client and the routes it posts to, while hospitals log in from
\* other places; handler h1 serves the request the client has sent
NextPatient ==
    \/ \E i \in 1..Len(users), l \in {PointB, PointC} : Login(i, "hospital", TRUE, l)
    \/ \E r \in Reasons, l \in PatientClientLocations \cup {NoLocation} :
          SendRequest("SOS", r, "HIGH", l)
    \/ \E r \in Reasons, c \in SelectCriticalities, l \in PatientClientLocations :
          SendRequest("DOCTOR_CONNECT", r, c, l)
    \/ \E ok \in BOOLEAN, o \in OrderFns :
          /\ patientView.at = "sent"
          /\ resp = NoResponse
          /\ Len(doctorRequests) < MaxRequests
          /\ DispatchFind("h1", patientView.body, ok, o)
    \/ DispatchRoute("h1")
    \/ \E ok \in BOOLEAN : DispatchInsert("h1", ok)
    \/ ReceiveResponse
    \/ NetworkError

SpecPatient == Init /\ [][NextPatient]_vars

\* the dashboard with the routes behind it: dispatches arrive, the staff
\* resolve, and runs of loadAndRenderRequests overlap
NextDashboard ==
    \/ Dispatch({"h1"}, FrameBodies)
    \/ \E id \in 1..MaxRequests, n \in PatientNames, t \in PrescriptionTexts :
          StaffSave(id, n, t, "ok") /\ UNCHANGED dialog
    \/ StaffResolve("ok")
    \/ LoadStart
    \/ \E k \in 1..MaxLoads, reached \in BOOLEAN, role \in {"hospital", "patient"},
          ok \in BOOLEAN, o \in QueueOrderFns :
          FetchDoctorRequests(k, reached, role, ok, o)
    \/ \E k \in 1..MaxLoads, o \in QueueOrderFns : LoadRender(k, o)

SpecDashboard == Init /\ [][NextDashboard]_vars

\* the resolution dialogs of the staff client under every answer, with the
\* two calls behind them under every outcome
NextStaff ==
    \/ Dispatch({"h1"}, FrameBodies)
    \/ \E id \in 1..MaxRequests, n \in PatientNames, c \in BOOLEAN, t \in PromptAnswers,
          oc \in Outcomes :
          ResolveRequestStart(id, n, c, t, oc)
    \/ \E oc \in Outcomes : StaffResolve(oc)

SpecStaff == Init /\ [][NextStaff]_vars

\* the rendering functions on their own
ShownOrderFns == UNION {Orders(n) : n \in 0..MaxShown}

NextRender == \E requests \in ShownLists, o \in ShownOrderFns : CallRender(requests, o)

SpecRender == Init /\ [][NextRender]_vars

\* the routing functions on their own
NextPure ==
    \/ \E a \in GridPoints, b \in GridPoints : CallGetDistance(a, b)
    \/ \E patient \in {PointA, PointC}, all \in CandidateArrays : CallFindNearest(patient, all)

SpecPure == Init /\ [][NextPure]_vars

(***************************************************************************)
(* Properties.                                                             *)
(***************************************************************************)
\* an APPROVED hospital with a usable coordinate: a location with a numeric lat and lng
Eligible(u) ==
    /\ u.role = "hospital"
    /\ u.status = "APPROVED"
    /\ u.location.present
    /\ u.location.lat # Undefined
    /\ u.location.lng # Undefined

EligibleUsers == {i \in 1..Len(users) : Eligible(users[i])}

\* the distance from the coordinate of body b to the stored location of hospital h
DistanceTo(b, h) ==
    getDistance(parseFloat(b.location.lat), parseFloat(b.location.lng),
                parseFloat(h.location.lat), parseFloat(h.location.lng))

\* handler p reads the directory in this step
ReadsDirectory(p) == pc[p] = "idle" /\ pc'[p] = "found"

\* C1: whenever the directory read by a dispatch holds at least one APPROVED
\* hospital with a usable coordinate, findNearestHospital returns one of them,
\* and no eligible hospital is strictly nearer to the request coordinate than
\* the one returned, whatever the order of the cursor.
C1_NearestIsMinimum ==
    [][\A p \in Handlers :
          (ReadsDirectory(p) /\ EligibleUsers # {}) =>
              /\ nearest'[p].found
              /\ nearest'[p].hospital.id \in EligibleUsers
              /\ nearest'[p].distance = DistanceTo(body'[p], nearest'[p].hospital)
              /\ \A i \in EligibleUsers :
                    ~NumLess(DistanceTo(body'[p], users[i]), nearest'[p].distance)]_vars

StoredRequests == {doctorRequests[i] : i \in 1..Len(doctorRequests)}

\* handler p leaves the wait for findNearestHospital in this step
LeavesFound(p) == pc[p] = "found" /\ pc'[p] # "found"

\* handler p responds after its insertOne in this step
Responds(p) == pc[p] = "inserting" /\ pc'[p] = "idle"

\* the insertOne of handler p stores a document in this step
Inserts(p) == Responds(p) /\ Len(doctorRequests') = Len(doctorRequests) + 1

\* while a handler waits, what findNearestHospital returned to it stays as it is
NearestKept(p) == (pc[p] # "idle" /\ pc'[p] # "idle") => nearest'[p] = nearest[p]

\* C3: every stored Request is assigned to a user document that is a hospital,
\* APPROVED and with a location; what findNearestHospital returns is a document
\* of the directory as read that is a hospital, APPROVED and with a location,
\* and its id is the hospitalId the dispatch stores.
C3_AssignedWasApproved ==
    /\ [](\A r \in StoredRequests :
            /\ r.hospitalId \in 1..Len(users)
            /\ users[r.hospitalId].role = "hospital"
            /\ users[r.hospitalId].status = "APPROVED"
            /\ users[r.hospitalId].location.present)
    /\ [][\A p \in Handlers :
            /\ (ReadsDirectory(p) /\ nearest'[p].found) =>
                  /\ nearest'[p].hospital.id \in 1..Len(users)
                  /\ users[nearest'[p].hospital.id] = nearest'[p].hospital
                  /\ nearest'[p].hospital.role = "hospital"
                  /\ nearest'[p].hospital.status = "APPROVED"
                  /\ nearest'[p].hospital.location.present
            /\ NearestKept(p)
            /\ Inserts(p) => Last(doctorRequests').hospitalId = nearest[p].hospital.id]_vars

\* a request is stored while a hospital that is still PENDING lies nearer to it
\* than the hospital it was assigned to
C3_Witness ==
    \E r \in StoredRequests : \E i \in 1..Len(users) :
        /\ users[i].role = "hospital"
        /\ users[i].status = "PENDING"
        /\ users[i].location.present
        /\ NumLess(DistanceTo(r, users[i]), DistanceTo(r, users[r.hospitalId]))

\* C4: when the directory read by a dispatch holds no APPROVED hospital with a
\* usable coordinate, findNearestHospital returns null; a dispatch that got
\* null answers 503, stores nothing and ends there.
C4_NoFacilityFails ==
    [][\A p \in Handlers :
          /\ (ReadsDirectory(p) /\ EligibleUsers = {}) => ~nearest'[p].found
          /\ NearestKept(p)
          /\ (LeavesFound(p) /\ ~nearest[p].found) =>
                /\ resp' = [op |-> body[p].kind, status |-> 503]
                /\ doctorRequests' = doctorRequests
                /\ pc'[p] = "idle"
                /\ ~newRequest'[p].made]_vars

\* a dispatch has answered 503 and the directory holds hospitals, none of them eligible
C4_Witness ==
    /\ resp.status = 503
    /\ EligibleUsers = {}
    /\ \E i \in 1..Len(users) : users[i].role = "hospital" /\ users[i].status = "APPROVED"

\* C5: a document stored by POST /api/sos-request has criticality HIGH, type
\* SOS, status PENDING and the caller's reason behind the marker, whatever
\* criticality the caller sent.
C5_SosForcedHigh ==
    /\ [](\A r \in StoredRequests : r.type = "SOS" => r.criticality = "HIGH")
    /\ [][\A p \in Handlers :
            (Inserts(p) /\ body[p].kind = "SOS") =>
                /\ Last(doctorRequests').criticality = "HIGH"
                /\ Last(doctorRequests').type = "SOS"
                /\ Last(doctorRequests').status = "PENDING"
                /\ Last(doctorRequests').reason = SosMarker \o body[p].reason]_vars

\* an SOS request is stored
C5_Witness ==
    \E r \in StoredRequests : r.type = "SOS" /\ r.criticality = "HIGH" /\ r.status = "PENDING"

\* C9: a document stored by a successful dispatch carries status PENDING, the
\* id and name of the assigned hospital, and the distance to it computed by
\* findNearestHospital.
C9_StoredCarriesDistance ==
    [][\A p \in Handlers :
          Inserts(p) =>
              /\ Last(doctorRequests').status = "PENDING"
              /\ Last(doctorRequests').hospitalId = nearest[p].hospital.id
              /\ Last(doctorRequests').hospitalName = HospitalDisplayName(nearest[p].hospital)
              /\ "distance" \in DOMAIN Last(doctorRequests')
              /\ Last(doctorRequests').distance = nearest[p].distance]_vars

\* C10: a dispatch that answers 201 has stored one document; the hospitalName
\* of the response is the hospitalName of the document, the hospitalId of the
\* document is the id of that hospital, and the distance of the response is the
\* distance from the request coordinate to the hospital's coordinate as
\* findNearestHospital read it, whatever the directory holds by then.
C10_ResponseMatchesStored ==
    [][\A p \in Handlers :
          /\ (ReadsDirectory(p) /\ nearest'[p].found) =>
                users[nearest'[p].hospital.id] = nearest'[p].hospital
          /\ NearestKept(p)
          /\ (Responds(p) /\ resp'.status = 201) =>
                /\ Inserts(p)
                /\ resp'.hospitalName = Last(doctorRequests').hospitalName
                /\ resp'.hospitalName = HospitalDisplayName(nearest[p].hospital)
                /\ Last(doctorRequests').hospitalId = nearest[p].hospital.id
                /\ resp'.distance = DistanceTo(body[p], nearest[p].hospital)]_vars

\* a dispatch has answered 201 with a distance that is no longer the distance
\* to the coordinate the directory holds for the assigned hospital
C10_Witness ==
    /\ resp.status = 201
    /\ doctorRequests # <<>>
    /\ resp.hospitalName = Last(doctorRequests).hospitalName
    /\ resp.distance # DistanceTo(Last(doctorRequests), users[Last(doctorRequests).hospitalId])

\* rank of a criticality in the queue: HIGH over MEDIUM over LOW over anything else
CriticalityRank(c) ==
    CASE c = "HIGH" -> 3 [] c = "MEDIUM" -> 2 [] c = "LOW" -> 1 [] OTHER -> 0

QueueAnswered == resp.op = "queue" /\ resp.status = 200

\* C2: the list GET /api/doctor-requests returns has every HIGH request before
\* every MEDIUM one and every MEDIUM before every LOW one, and requests of
\* equal criticality in the order of their timestamps.
C2_QueueByCriticalityRank ==
    QueueAnswered =>
        \A i, j \in 1..Len(resp.list) :
            i < j =>
                \/ CriticalityRank(resp.list[i].criticality)
                       > CriticalityRank(resp.list[j].criticality)
                \/ /\ resp.list[i].criticality = resp.list[j].criticality
                   /\ resp.list[i].timestamp <= resp.list[j].timestamp

\* C6: a stored Request has status PENDING or RESOLVED; it is stored as
\* PENDING, no step removes a Request, and a Request that is RESOLVED stays
\* RESOLVED.
C6_StatusOnlyForward ==
    /\ [](\A r \in StoredRequests : r.status \in {"PENDING", "RESOLVED"})
    /\ [][/\ Len(doctorRequests') >= Len(doctorRequests)
          /\ \A i \in 1..Len(doctorRequests) :
                /\ doctorRequests'[i].id = doctorRequests[i].id
                /\ doctorRequests[i].status = "RESOLVED" =>
                      doctorRequests'[i].status = "RESOLVED"
          /\ \A i \in (Len(doctorRequests) + 1)..Len(doctorRequests') :
                doctorRequests'[i].status = "PENDING"]_vars

\* a request was stored after an earlier one was resolved
C6_Witness ==
    \E r, q \in StoredRequests : r.status = "RESOLVED" /\ q.status = "PENDING" /\ q.id > r.id

\* the staff client makes its resolve call in this step
ResolveCalled == staff.at = "saved" /\ staff'.at = "idle"

PendingBefore(requestId) ==
    /\ requestId \in 1..Len(doctorRequests)
    /\ doctorRequests[requestId].status = "PENDING"

\* C7: a resolve call answers 200 only for a request that was PENDING, which it
\* leaves RESOLVED; for an id that is unknown or already RESOLVED the call never
\* answers 200, the endpoint answers 404, and the request store stays as it was.
C7_ResolveOnlyPending ==
    [][ResolveCalled =>
          /\ resp'.op = "resolve"
          /\ resp'.status \in {200, 404, 401, 500}
          /\ resp'.status = 200 =>
                /\ PendingBefore(staff.requestId)
                /\ doctorRequests'[staff.requestId].status = "RESOLVED"
          /\ resp'.status = 404 => ~PendingBefore(staff.requestId)
          /\ ~PendingBefore(staff.requestId) =>
                /\ resp'.status # 200
                /\ doctorRequests' = doctorRequests]_vars

\* a resolve call for a request that was already RESOLVED has answered 404
C7_Witness ==
    /\ resp.op = "resolve"
    /\ resp.status = 404
    /\ resp.requestId \in 1..Len(doctorRequests)
    /\ doctorRequests[resp.requestId].status = "RESOLVED"

CandidateDistance(i) ==
    getDistance(parseFloat(calc.patient.lat), parseFloat(calc.patient.lng),
                parseFloat(calc.all[i].location.lat), parseFloat(calc.all[i].location.lng))

\* the documents of calc.all with a location and a distance that is a number
Measured == {i \in 1..Len(calc.all) :
                calc.all[i].location.present /\ CandidateDistance(i) # NaN}

\* C12: findNearestHospital returns the first document of the array the store
\* returned whose distance is the smallest: no document before it is as near,
\* no document at all is nearer, and it returns null only when no document
\* has a distance.
C12_FirstOfTheNearest ==
    calc.fn = "findNearestHospital" =>
        IF Measured = {}
        THEN ~calc.nearest.found
        ELSE /\ calc.nearest.found
             /\ \E i \in Measured :
                   /\ calc.nearest.hospital = calc.all[i]
                   /\ calc.nearest.distance = CandidateDistance(i)
                   /\ \A j \in Measured : CandidateDistance(j) >= CandidateDistance(i)
                   /\ \A j \in Measured : j < i => CandidateDistance(j) > CandidateDistance(i)

\* the nearest two documents are equally far, neither is the first of the
\* array, and the earlier of the two was returned
C12_Witness ==
    /\ calc.fn = "findNearestHospital"
    /\ calc.nearest.found
    /\ \E i, j \in Measured :
          /\ 1 < i /\ i < j
          /\ calc.all[i].location # calc.all[j].location
          /\ CandidateDistance(i) = CandidateDistance(j)
          /\ CandidateDistance(1) > CandidateDistance(i)
          /\ calc.nearest.hospital.id = i

\* C17: getDistance from a to b equals getDistance from b to a, for every
\* pair of coordinates.
C17_DistanceSymmetric ==
    calc.fn = "getDistance" => NumEq(calc.ab, calc.ba)

\* C18: getDistance is a number that is 0 or more for every pair of
\* coordinates, and 0 when the two coordinates are the same.
C18_DistanceNonNegative ==
    calc.fn = "getDistance" =>
        /\ calc.ab # NaN /\ calc.ab >= 0
        /\ calc.a = calc.b => calc.ab = 0

(***************************************************************************)
(* Properties of the dispatch and queue routes under every body.           *)
(***************************************************************************)
\* u is the string c with every letter a..z replaced by A..Z
IsUpperCased(u, c) ==
    LET uu == CodeUnits(u)
        cu == CodeUnits(c)
    IN /\ Len(uu) = Len(cu)
       /\ Len(uu) > 0
       /\ \A i \in 1..Len(cu) :
             uu[i] = IF cu[i] \in 97..122 THEN cu[i] - 32 ELSE cu[i]

\* C11: a document POST /api/doctor-request stores has type DOCTOR_CONNECT and
\* status PENDING; its criticality is the caller's criticality in upper case
\* when the caller sent one, and LOW when the caller sent none.
C11_DoctorCriticalityUpperCased ==
    [][\A p \in Handlers :
          (Inserts(p) /\ body[p].kind = "DOCTOR_CONNECT") =>
              /\ Last(doctorRequests').type = "DOCTOR_CONNECT"
              /\ Last(doctorRequests').status = "PENDING"
              /\ IF body[p].criticality = ""
                 THEN Last(doctorRequests').criticality = "LOW"
                 ELSE IsUpperCased(Last(doctorRequests').criticality, body[p].criticality)]_vars

\* a doctor request is stored with criticality LOW, and the next one, sent
\* with criticality low, is about to be stored with LOW too
C11_Witness ==
    /\ \E r \in StoredRequests : r.type = "DOCTOR_CONNECT" /\ r.criticality = "LOW"
    /\ \E p \in Handlers :
          /\ pc[p] = "inserting"
          /\ body[p].kind = "DOCTOR_CONNECT"
          /\ body[p].criticality = "low"
          /\ newRequest[p].doc.criticality = "LOW"

\* a step in which a dispatch route sends a response
DispatchAnswers == resp'.op \in Kinds /\ (resp' # resp \/ \E p \in Handlers : pc'[p] # pc[p] /\ pc'[p] = "idle")

\* the step stores exactly one new document and leaves the others as they are
StoresOne ==
    /\ Len(doctorRequests') = Len(doctorRequests) + 1
    /\ \A i \in 1..Len(doctorRequests) : doctorRequests'[i] = doctorRequests[i]

\* C15: a dispatch answers 201, with the hospital's name and the distance, in
\* the step in which it stores exactly one new document, and only then; a
\* dispatch that answers 503 or 500 stores nothing, and nothing is stored in
\* a step in which no dispatch answers 201.
C15_CreatedIffStored ==
    [][/\ \A p \in Handlers :
             /\ Responds(p) =>
                   \/ resp'.status = 201 /\ StoresOne
                   \/ resp'.status = 500 /\ doctorRequests' = doctorRequests
             /\ (LeavesFound(p) /\ pc'[p] = "idle") =>
                   resp'.status \in {503, 500} /\ doctorRequests' = doctorRequests
             /\ ReadsDirectory(p) => doctorRequests' = doctorRequests
       /\ (DispatchAnswers /\ resp'.status = 201) =>
             /\ StoresOne
             /\ DOMAIN resp' = {"op", "status", "hospitalName", "distance"}
             /\ \E p \in Handlers : Responds(p)
       /\ (DispatchAnswers /\ resp'.status # 201) =>
             resp'.status \in {503, 500} /\ doctorRequests' = doctorRequests
       /\ doctorRequests' # doctorRequests => resp'.status = 201 /\ resp'.op \in Kinds]_vars

\* a dispatch has answered 500 after another one was stored, and the store
\* holds only that one
C15_Witness ==
    /\ resp.op \in Kinds
    /\ resp.status = 500
    /\ Len(doctorRequests) = 1
    /\ \A p \in Handlers : pc[p] = "idle"

\* the location of a body is a coordinate: present, with a numeric lat and lng
NumericCoordinate(location) ==
    /\ location.present
    /\ parseFloat(location.lat) # NaN
    /\ parseFloat(location.lng) # NaN

\* C16: a dispatch whose body has no location, or a location whose lat or lng
\* is missing or not numeric, is answered with a validation error, which is
\* neither the 503 of routing nor the 500 of the catch, and stores nothing.
C16_BadCoordinateRejected ==
    [][\A p \in Handlers :
             (pc[p] # "idle" /\ pc'[p] = "idle" /\ ~NumericCoordinate(body[p].location)) =>
                /\ resp'.status \notin {201, 503, 500}
                /\ doctorRequests' = doctorRequests]_vars

\* C20: every step that ends an invocation of a dispatch route sends one
\* response of that route, 201, 503 or 500; every response of the queue route
\* is 200 with the list, 401, 403 or 500; a handler that is waiting for the
\* store always has its next step, so no invocation ends without a response.
C20_AlwaysOneResponse ==
    /\ [][/\ \A p \in Handlers :
                (pc[p] # "idle" /\ pc'[p] = "idle") =>
                    /\ resp'.op = body[p].kind
                    /\ resp'.status \in {201, 503, 500}
          /\ (resp' # resp /\ resp'.op \in Kinds) => resp'.status \in {201, 503, 500}
          /\ (resp' # resp /\ resp'.op = "queue") =>
                /\ resp'.status \in {200, 401, 403, 500}
                /\ resp'.status = 200 <=> "list" \in DOMAIN resp'
          /\ resp'.op \in Kinds \cup {"queue", "none"}]_vars
    /\ [](\A p \in Handlers :
             /\ pc[p] \in {"idle", "found", "inserting"}
             /\ pc[p] = "found" => ENABLED DispatchRoute(p)
             /\ pc[p] = "inserting" => ENABLED DispatchInsert(p, TRUE))

\* a doctor request has failed and was answered 500, with nothing stored and
\* no handler left waiting
C20_Witness ==
    /\ resp = [op |-> "DOCTOR_CONNECT", status |-> 500]
    /\ doctorRequests = <<>>
    /\ \A p \in Handlers : pc[p] = "idle"

(***************************************************************************)
(* Properties of the staff workflow, of repeated dispatch, and the frame   *)
(* of the request store.                                                   *)
(***************************************************************************)
\* the staff client gets the answer to its prescription write in this step
SaveAnswered == staff.at = "idle" /\ resp'.op = "prescription" /\ (resp' # resp \/ staff' # staff)

\* C13: the staff client makes its resolve call only when its prescription
\* write for that request has just been answered with success and recorded;
\* when the write fails or is denied, the client makes no resolve call and
\* the request store stays as it was; a status changes only in a resolve call.
C13_ResolveAfterPrescription ==
    [][/\ (staff'.at = "saved" /\ staff.at # "saved") =>
             /\ SaveAnswered
             /\ resp'.status = 201
             /\ Len(prescriptions') = Len(prescriptions) + 1
             /\ Last(prescriptions').requestId = staff'.requestId
       /\ ResolveCalled =>
             \E i \in 1..Len(prescriptions) : prescriptions[i].requestId = staff.requestId
       /\ (SaveAnswered /\ resp'.status # 201) =>
             /\ staff'.at = "idle"
             /\ doctorRequests' = doctorRequests
       /\ (\E i \in 1..Len(doctorRequests) :
              doctorRequests'[i].status # doctorRequests[i].status) => ResolveCalled]_vars

\* a prescription write has failed, and the request it was for is still
\* PENDING and has no prescription
C13_Witness ==
    /\ resp = [op |-> "prescription", status |-> 500]
    /\ staff.at = "idle"
    /\ \E r \in StoredRequests :
          /\ r.status = "PENDING"
          /\ \A i \in 1..Len(prescriptions) : prescriptions[i].requestId # r.id

\* a stored document without the _id the store gave it
Content(r) == [k \in DOMAIN r \ {"id"} |-> r[k]]

\* C14: every insertOne of a dispatch that answers 201 adds the document the
\* dispatch built as a new one and leaves the stored ones as they are, also
\* when the store already holds a document of the same content and whatever
\* the other invocation does meanwhile; a dispatch that reached insertOne
\* fails only when the store does.
C14_NoDeduplication ==
    [][\A p \in Handlers :
          Responds(p) =>
              \/ /\ resp'.status = 201
                 /\ StoresOne
                 /\ Content(Last(doctorRequests')) = newRequest[p].doc
                 /\ Last(doctorRequests').id \notin {doctorRequests[i].id : i \in 1..Len(doctorRequests)}
              \/ /\ resp'.status = 500
                 /\ doctorRequests' = doctorRequests]_vars

\* the store holds two documents of the same content
C14_Witness ==
    \E i, j \in 1..Len(doctorRequests) :
        /\ i < j
        /\ Content(doctorRequests[i]) = Content(doctorRequests[j])
        /\ doctorRequests[i].id # doctorRequests[j].id

\* C19: no step removes a stored Request or changes a field of it other than
\* status: dispatches, queue reads, logins, approvals and prescriptions leave
\* every stored Request as it is, and a resolve call changes at most the
\* status of the one it names, from PENDING to RESOLVED.
C19_StoredRequestFrame ==
    [][/\ Len(doctorRequests') >= Len(doctorRequests)
       /\ \A i \in 1..Len(doctorRequests) :
             /\ DOMAIN doctorRequests'[i] = DOMAIN doctorRequests[i]
             /\ \A k \in DOMAIN doctorRequests[i] \ {"status"} :
                   doctorRequests'[i][k] = doctorRequests[i][k]
             /\ doctorRequests'[i].status # doctorRequests[i].status =>
                   /\ ResolveCalled
                   /\ staff.requestId = i
                   /\ doctorRequests[i].status = "PENDING"
                   /\ doctorRequests'[i].status = "RESOLVED"]_vars

\* a stored Request is still assigned to the hospital it was routed to, while
\* by now an eligible hospital is nearer to it, and another Request has been
\* routed to that one
C19_Witness ==
    \E r, q \in StoredRequests : \E i \in EligibleUsers :
        /\ NumLess(DistanceTo(r, users[i]), DistanceTo(r, users[r.hospitalId]))
        /\ q.hospitalId = i
        /\ q.id > r.id
        /\ q.location = r.location

(***************************************************************************)
(* C23: the two calls of givePrescriptionAndResolve are not a transaction. *)
(***************************************************************************)
\* the resolve call of this step fails: 401/403, a response that is not ok, no response
ResolveFails == ResolveCalled /\ resp'.status \notin 200..299

\* C23: when the prescription write has succeeded and the resolve call then
\* fails, the prescription stays stored (no rollback), the request store is
\* unchanged, so a PENDING request stays PENDING, the client makes no further
\* call on its own, and it shows a warning or an error, never the success alert.
C23_NoRollbackNoRetry ==
    [][ResolveFails =>
          /\ prescriptions' = prescriptions
          /\ \E i \in 1..Len(prescriptions') : prescriptions'[i].requestId = staff.requestId
          /\ doctorRequests' = doctorRequests
          /\ staff' = StaffIdle
          /\ toast' \in {"warning", "error"}]_vars

\* a resolve call has failed for a request that is still PENDING and whose
\* prescription is stored, and the client shows the error
C23_Witness ==
    /\ resp.op = "resolve"
    /\ resp.status = 500
    /\ staff = StaffIdle
    /\ toast = "error"
    /\ PendingBefore(resp.requestId)
    /\ \E i \in 1..Len(prescriptions) : prescriptions[i].requestId = resp.requestId

(***************************************************************************)
(* C24: the queue does not depend on which hospital asks.                  *)
(***************************************************************************)
\* the sequences that can be made of stored requests, each taken at most once
StoredLists ==
    {[i \in 1..Len(o) |-> doctorRequests[o[i]]] :
        o \in {q \in QueueOrderFns : \A i \in 1..Len(q) : q[i] \in 1..Len(doctorRequests)}}

\* the route can answer the hospital id with the sequence list
CanAnswer(id, list) ==
    ENABLED (\E o \in QueueOrderFns :
                /\ GetDoctorRequests("hospital", id, TRUE, o)
                /\ UNCHANGED <<toast, loads>>
                /\ resp'.status = 200
                /\ resp'.list = list)

QueueAnswers == resp'.op = "queue" /\ resp'.status = 200 /\ resp' # resp

OutcomeShown(type) ==
    patientView.at = "idle" /\ patientView.type = type /\ patientView.title # ""

\* the outcome shown is that of a response, not of a fetch that rejected
Answered == patientView.result # NoResponse

\* C21: when the doctor-connect route answers with a failure, the patient
\* client does not show 'Doctor Request Sent!'.
C21_DoctorFailureNotShownAsSent ==
    (OutcomeShown("DOCTOR_CONNECT") /\ Answered /\ patientView.result.status \notin 200..299)
        => patientView.title # "Doctor Request Sent!"

\* C22: the patient client shows 'SOS Request Sent!' only for a response that
\* is a success; for a response that is not, it shows 'SOS Failed' with the
\* advice to call emergency services; for a fetch that rejects it shows the
\* network error.
C22_SosSentOnlyOnSuccess ==
    OutcomeShown("SOS") =>
        /\ patientView.title = "SOS Request Sent!" =>
              Answered /\ patientView.result.status \in 200..299
        /\ (Answered /\ patientView.result.status \notin 200..299) =>
              patientView.title = "SOS Failed" /\ patientView.advice
        /\ (~Answered /\ patientView.title # "Could not fetch location") =>
              patientView.title = "A network error occurred"

\* the SOS route has answered 503 and the client shows 'SOS Failed'
C22_Witness ==
    /\ OutcomeShown("SOS")
    /\ Answered
    /\ patientView.result.status = 503
    /\ patientView.title = "SOS Failed"

\* C30: for a response that is a success the patient client shows the
\* hospital name and the distance of the response, the distance with two
\* decimals, also when the distance is 0.
C30_ShowsReturnedNameAndDistance ==
    (patientView.at = "idle" /\ Answered /\ patientView.result.status \in 200..299) =>
        /\ patientView.hospitalName = patientView.result.hospitalName
        /\ patientView.distance = toFixed2(patientView.result.distance)

(***************************************************************************)
(* C29: a resolution the staff do not go through with.                     *)
(***************************************************************************)
\* resolveRequestStart runs in this step and the staff decline the confirm,
\* cancel the prompt or leave it empty
Declines ==
    /\ dialog' # dialog
    /\ ~dialog'.confirmed \/ dialog'.text \in {"", PromptCancelled}

\* C29: when the staff decline the confirmation, cancel the prompt or enter an
\* empty prescription, resolveRequestStart makes neither the prescription
\* write nor the resolve call: both stores stay as they are, so the request
\* stays PENDING, and no call is left in flight.
C29_DeclineCallsNothing ==
    [][Declines =>
          /\ prescriptions' = prescriptions
          /\ doctorRequests' = doctorRequests
          /\ resp' = resp
          /\ staff' = staff]_vars

\* the staff confirmed and left the prompt empty for a request that is still
\* PENDING and has no prescription; the warning is shown
C29_Witness ==
    /\ dialog.confirmed
    /\ dialog.text = ""
    /\ toast = "warning"
    /\ staff = StaffIdle
    /\ PendingBefore(dialog.requestId)
    /\ \A i \in 1..Len(prescriptions) : prescriptions[i].requestId # dialog.requestId

(***************************************************************************)
(* C25: the order of the doctor-request queue on the dashboard.            *)
(***************************************************************************)
\* the rank of a request in the queue: a missing criticality counts as LOW
ShownRank(r) ==
    IF r.criticality = "" THEN CriticalityRank("LOW") ELSE CriticalityRank(r.criticality)

\* C25: renderBookNowQueue shows the requests by rank, HIGH over MEDIUM over
\* LOW over any other criticality, a missing one as LOW; requests of equal
\* rank by timestamp, earliest first, and of equal timestamp in the order of
\* the list it was given.  A request with a criticality that is not
\* recognised is never shown above one that is HIGH, MEDIUM or LOW.
C25_ShownByRankThenTime ==
    calc.fn = "renderBookNowQueue" =>
        \A i, j \in 1..Len(screen.queue) :
            i < j =>
               LET a == screen.queue[i]
                   b == screen.queue[j]
               IN \/ ShownRank(a) > ShownRank(b)
                  \/ /\ ShownRank(a) = ShownRank(b)
                     /\ \/ a.timestamp < b.timestamp
                        \/ a.timestamp = b.timestamp /\ a.id < b.id

(***************************************************************************)
(* C26, C27: what the dashboard shows after a fetch that failed, and after *)
(* runs of loadAndRenderRequests that overlapped.                          *)
(***************************************************************************)
\* the dashboard shows both messages of the empty state:
\* 'No pending doctor requests.' and '... No new SOS alerts.'
ShowsEmptyState == screen.queue = <<>> /\ screen.alerts = <<>>

\* C26: when the fetch of the queue fails (no response, or a response that is
\* not a success), the dashboard does not render the empty state for it.
C26_FailedFetchNotShownAsEmpty ==
    \A k \in 1..Len(loads) :
        (loads[k].at = "done" /\ loads[k].status \notin 200..299 /\ screen.run = k)
            => ~ShowsEmptyState

\* C27: once every run of loadAndRenderRequests has rendered, the dashboard
\* shows the list that the fetch of the run started last returned: its SOS
\* requests as alerts, its doctor requests as the queue.  (Stated for runs
\* whose fetches were all answered with a list.)
C27_LatestStartedRunShown ==
    (loads # <<>> /\ \A k \in 1..Len(loads) : loads[k].at = "done" /\ loads[k].status = 200) =>
        LET latest == loads[Len(loads)].list
            queueRequests == SelectSeq(latest, IsBookNow)
        IN /\ screen.alerts = SelectSeq(latest, IsSos)
           /\ Len(screen.queue) = Len(queueRequests)
           /\ \A i \in 1..Len(queueRequests) :
                 \E j \in 1..Len(screen.queue) : screen.queue[j] = queueRequests[i]

====
